---------------------------- MODULE Spec2Model ----------------------------
(* Routing policy framework of sgl-router: the policy factory               *)
(* (policies/factory.rs) and the token cache-aware policy                   *)
(* (policies/token_cache_aware.rs).                                         *)
(*                                                                          *)
(* Conventions.  Indices are 0-based as in the Rust code: the worker with   *)
(* index i of a slice ws is ws[i + 1].  Option<T> is a sequence of length   *)
(* 0 (None) or 1 (Some).  An f32 that is finite and not negative is the     *)
(* record [m, e] standing for m * 2^e, with m = 0 (zero) or                 *)
(* 2^23 <= m < 2^24 (a normal number, 24 significant bits).                 *)
EXTENDS Integers, Sequences, FiniteSets, TLC

VARIABLES
    policy,           \* the policy instance in use: its name() and config
    factory_call,     \* the last factory call: entry point, selector, tokenizer, outcome
    pc,               \* position of the selection call: idle, resolver, done
    mode,             \* which entry point is running: select_worker or select_worker_pair
    workers,          \* the worker slice of the call (the prefill slice of a pair call)
    decode_workers,   \* the decode slice of a pair call
    request_text,     \* Option<&str>
    token_ids,        \* Option<&[u32]>
    healthy_indices,  \* the eligibility snapshot of line 148
    token_ids_vec,    \* Option: the token sequence handed to call_nexuts_api
    runtime_ctx,      \* execution context found by Handle::current / block_on
    tokenizer_calls,  \* calls of Tokenizer::encode made by this call
    resolver_calls,   \* requests this call sent to the resolver
    resolver_response,\* Option: what the resolver call produced
    processed,        \* increment_processed() calls received, per worker index
    metrics,          \* RouterMetrics events recorded by this call
    result,           \* what the call returned
    other,            \* a select_worker call made meanwhile by another thread
    completed         \* the on_request_complete notification that followed the call

vars == << policy, factory_call, pc, mode, workers, decode_workers, request_text,
           token_ids, healthy_indices, token_ids_vec, runtime_ctx, tokenizer_calls,
           resolver_calls, resolver_response, processed, metrics, result, other,
           completed >>

---------------------------------------------------------------------------
(* Bounds of the model.                                                     *)

\* Longest worker slice passed to select_worker (and prefill slice of a pair).
MaxWorkers == 2

\* Longest decode slice passed to select_worker_pair.
MaxDecode == 2

\* Largest worker slice handed to the call of a second caller.
MaxOtherWorkers == 1

\* Largest prefill slice of the pair calls that look at ties: two workers of
\* equal load and a third one that makes the load imbalanced.
MaxTiedWorkers == 3

---------------------------------------------------------------------------
(* f32 arithmetic of the imbalance check (line 161).                        *)

Two23 == 2^23
Two24 == 2^24
Two12 == 2^12

F32Zero == [m |-> 0, e |-> 0]

\* Smallest k with n < 2^k.
RECURSIVE BitLen(_)
BitLen(n) == IF n = 0 THEN 0 ELSE 1 + BitLen(n \div 2)

\* Round-to-nearest, ties-to-even, of q + r/2^k to an integer (0 <= r < 2^k).
RoundEven(q, r, k) ==
    IF k = 0 THEN q
    ELSE LET half == 2^(k - 1)
         IN IF r > half \/ (r = half /\ q % 2 = 1) THEN q + 1 ELSE q

\* A 24-bit significand that rounding carried to 2^24 is renormalised.
Renorm(m, e) == IF m = Two24 THEN [m |-> Two23, e |-> e + 1] ELSE [m |-> m, e |-> e]

\* `n as f32` for a usize n: exact below 2^24, rounded to 24 bits above.
UsizeAsF32(n) ==
    IF n = 0 THEN F32Zero
    ELSE LET len == BitLen(n)
         IN IF len <= 24
            THEN [m |-> n * 2^(24 - len), e |-> len - 24]
            ELSE LET k == len - 24
                 IN Renorm(RoundEven(n \div 2^k, n % 2^k, k), k)

\* The exact product a * b of two naturals below 2^25, as <<hi, lo>> with
\* a * b = hi * 2^24 + lo and 0 <= lo < 2^24 (no intermediate exceeds 2^31).
WideMul(a, b) ==
    LET ah == a \div Two12
        al == a % Two12
        bh == b \div Two12
        bl == b % Two12
        mid == ah * bl + al * bh
        losum == (mid % Two12) * Two12 + al * bl
    IN << ah * bh + (mid \div Two12) + (losum \div Two24), losum % Two24 >>

\* Lexicographic order of two wide naturals.
WideGt(x, y) == x[1] > y[1] \/ (x[1] = y[1] /\ x[2] > y[2])

\* f32 multiplication `a * b`: the exact product rounded to 24 bits.
F32Mul(a, b) ==
    IF a.m = 0 \/ b.m = 0 THEN F32Zero
    ELSE LET p == WideMul(a.m, b.m)
         IN IF p[1] >= Two23
            THEN Renorm(RoundEven(p[1], p[2], 24), a.e + b.e + 24)
            ELSE Renorm(RoundEven(2 * p[1] + (p[2] \div Two23), p[2] % Two23, 23),
                        a.e + b.e + 23)

\* f32 comparison `a > b` of two numbers that are not negative.
F32Gt(a, b) ==
    IF a.m = 0 THEN FALSE
    ELSE IF b.m = 0 THEN TRUE
    ELSE a.e > b.e \/ (a.e = b.e /\ a.m > b.m)

---------------------------------------------------------------------------
(* Inputs of the model.                                                     *)

\* f32 values used as balance_rel_threshold: 0.5, 1.0 and 1.5, all exact in
\* f32.
F32Half == [m |-> Two23, e |-> -24]
F32One == [m |-> Two23, e |-> -23]
F32OneAndHalf == [m |-> 3 * 2^22, e |-> -23]

\* CacheAwareConfig values handed to the factory (the fields the routing
\* decision and the factory read or set; the other fields are copied through).
Configs ==
    { [balance_abs_threshold |-> 2,  balance_rel_threshold |-> F32OneAndHalf],
      [balance_abs_threshold |-> 10, balance_rel_threshold |-> F32One],
      [balance_abs_threshold |-> 0,  balance_rel_threshold |-> F32One],
      [balance_abs_threshold |-> 10, balance_rel_threshold |-> F32Half] }

\* Worker::load() values: two small queue depths, and the two smallest
\* neighbouring usize values that `as f32` cannot tell apart.
LoadValues == {10, 13, 2^24, 2^24 + 1}

\* Loads and thresholds of the prefill and decode slices of pair calls.
PairLoadValues == {10, 50}
PairConfigs == { [balance_abs_threshold |-> 10, balance_rel_threshold |-> F32OneAndHalf] }

\* Worker::url() of the worker at index i of a slice: identities are unique.
Url(i) == IF i = 0 THEN "http://w0" ELSE IF i = 1 THEN "http://w1"
          ELSE IF i = 2 THEN "http://w2" ELSE "http://w3"

WorkerStates(loads) == [load : loads, healthy : BOOLEAN]

\* All worker slices of length n whose loads come from `loads`.
SlicesOfLen(n, loads) ==
    { [i \in 1..n |-> [url |-> Url(i - 1), load |-> f[i].load, healthy |-> f[i].healthy]] :
        f \in [1..n -> WorkerStates(loads)] }

\* All worker slices of length 0..maxlen.
Slices(maxlen, loads) == UNION { SlicesOfLen(n, loads) : n \in 0..maxlen }

\* Option<&str> request texts: None, Some(""), Some("hello").
RequestTexts == { <<>>, <<"">>, <<"hello">> }

\* Option<&[u32]> token ids: None, Some([1, 2]).
TokenIdInputs == { <<>>, << <<1, 2>> >> }

\* Results of Tokenizer::encode: an error, or an encoding whose token_ids are [7].
EncodeResults == { [ok |-> FALSE, ids |-> <<>>], [ok |-> TRUE, ids |-> <<7>>] }

\* Execution contexts select_worker can be called from: a thread that may
\* block and has entered a Tokio runtime ("blocking"), a thread that is
\* driving asynchronous tasks ("async"), a thread with no runtime ("none").
RuntimeContexts == { "blocking", "async", "none" }

\* Identities a resolver may name: those of the slice, and a stranger.
ResolverUrls(n) == { Url(i) : i \in 0..(n - 1) } \cup { "http://stranger" }

\* What the HTTP exchange with the resolver can produce: a transport
\* failure, the client timeout, a non-success status, an undecodable body,
\* or a decoded NexutsResponse with 0, 1 or 2 worker_ids.
ResolverReplies(n) ==
    { [kind |-> k, worker_ids |-> <<>>] :
        k \in {"transport_error", "timeout", "status_error", "json_error"} }
    \cup { [kind |-> "ok", worker_ids |-> <<>>] }
    \cup { [kind |-> "ok", worker_ids |-> <<u>>] : u \in ResolverUrls(n) }
    \cup { [kind |-> "ok", worker_ids |-> uv] :
              uv \in { p \in ResolverUrls(n) \X ResolverUrls(n) : p[1] # p[2] } }

---------------------------------------------------------------------------
(* Policy factory (factory.rs).                                             *)

\* PolicyConfig values: the selector and, for the two cache-aware variants,
\* the thresholds it carries.  CacheAware also carries the cache-sync switch.
Selectors ==
    { [variant |-> v, config |-> <<>>] : v \in {"Random", "RoundRobin", "PowerOfTwo"} }
    \cup { [variant |-> "CacheAware",
            config |-> << [balance_abs_threshold |-> c.balance_abs_threshold,
                           balance_rel_threshold |-> c.balance_rel_threshold,
                           enable_cache_sync |-> s,
                           sync_interval_secs |-> IF s THEN 30 ELSE 0] >>] :
             c \in Configs, s \in BOOLEAN }
    \cup { [variant |-> "TokenCacheAware",
            config |-> << [balance_abs_threshold |-> c.balance_abs_threshold,
                           balance_rel_threshold |-> c.balance_rel_threshold] >>] :
             c \in Configs }

\* LoadBalancingPolicy::name of TokenCacheAwarePolicy.
TokenCacheAwareName == "token_cache_aware"

\* LoadBalancingPolicy::name of the four other policies.
OtherPolicyName(variant) ==
    CASE variant = "Random" -> "random"
      [] variant = "RoundRobin" -> "round_robin"
      [] variant = "PowerOfTwo" -> "power_of_two"
      [] variant = "CacheAware" -> "cache_aware"

\* A constructed policy behind Arc<dyn LoadBalancingPolicy>.
Instance(name, config) == [name |-> name, config |-> config]

\* What a factory call produces: the instance it returns, or a panic.
Built(inst) == [outcome |-> "instance", instance |-> <<inst>>]
Panicked == [outcome |-> "panic", instance |-> <<>>]

\* The arms shared by both config entry points (lines 19-41 and 63-85).
CreateWithoutTokenizer(sel) ==
    IF sel.variant = "CacheAware"
    THEN Built(Instance(OtherPolicyName(sel.variant), sel.config))
    ELSE Built(Instance(OtherPolicyName(sel.variant), <<>>))

\* create_from_config with the TokenCacheAware arm building an instance.
create_from_config_builds_all(sel) ==
    IF sel.variant = "TokenCacheAware"
    THEN Built(Instance(TokenCacheAwareName, sel.config))
    ELSE CreateWithoutTokenizer(sel)

\* PolicyFactory::create_from_config.
create_from_config(sel) ==
    IF sel.variant = "TokenCacheAware"
    THEN Panicked
    ELSE CreateWithoutTokenizer(sel)

\* create_from_config_with_tokenizer without the check of line 103.
create_from_config_with_tokenizer_unchecked(sel, tokenizer) ==
    IF sel.variant = "TokenCacheAware"
    THEN Built(Instance(TokenCacheAwareName, sel.config))
    ELSE CreateWithoutTokenizer(sel)

\* PolicyFactory::create_from_config_with_tokenizer; `tokenizer` tells
\* whether the Option holds a tokenizer.
create_from_config_with_tokenizer(sel, tokenizer) ==
    IF sel.variant = "TokenCacheAware"
    THEN LET config == [balance_abs_threshold |-> sel.config[1].balance_abs_threshold,
                        balance_rel_threshold |-> sel.config[1].balance_rel_threshold,
                        enable_cache_sync |-> FALSE,
                        sync_interval_secs |-> 0]
         IN IF tokenizer
            THEN Built(Instance(TokenCacheAwareName, <<config>>))
            ELSE Panicked
    ELSE CreateWithoutTokenizer(sel)

---------------------------------------------------------------------------
(* Name-based construction (factory.rs, lines 114-144).  A &str is the      *)
(* sequence of its characters, each a one-character string; characters     *)
(* outside ASCII are written by their code point.                          *)

UpperAscii == <<"A", "B", "C", "D", "E", "F", "G", "H", "I", "J", "K", "L", "M", "N", "O", "P", "Q", "R", "S", "T", "U", "V", "W", "X", "Y", "Z">>
LowerAscii == <<"a", "b", "c", "d", "e", "f", "g", "h", "i", "j", "k", "l", "m", "n", "o", "p", "q", "r", "s", "t", "u", "v", "w", "x", "y", "z">>

\* Index of c in the sequence s, 0 if it is not there.
IndexIn(s, c) == IF \E k \in 1..Len(s) : s[k] = c
                 THEN CHOOSE k \in 1..Len(s) : s[k] = c
                 ELSE 0

\* char::to_lowercase: ASCII capitals map to their small letter, the Kelvin
\* sign U+212A to "k", capital I with dot above U+0130 to "i" followed by the
\* combining dot U+0307; the other characters used here map to themselves.
char_to_lowercase(c) ==
    IF IndexIn(UpperAscii, c) # 0 THEN << LowerAscii[IndexIn(UpperAscii, c)] >>
    ELSE IF c = "U+212A" THEN << "k" >>
    ELSE IF c = "U+0130" THEN << "i", "U+0307" >>
    ELSE << c >>

\* A lookup that compares the name as given.
to_lowercase_verbatim(name) == name

\* str::to_lowercase: the lower-case mappings of the characters, in order.
RECURSIVE to_lowercase(_)
to_lowercase(name) ==
    IF name = <<>> THEN <<>>
    ELSE char_to_lowercase(Head(name)) \o to_lowercase(Tail(name))

Key_random == <<"r", "a", "n", "d", "o", "m">>
Key_round_robin == <<"r", "o", "u", "n", "d", "_", "r", "o", "b", "i", "n">>
Key_roundrobin == <<"r", "o", "u", "n", "d", "r", "o", "b", "i", "n">>
Key_power_of_two == <<"p", "o", "w", "e", "r", "_", "o", "f", "_", "t", "w", "o">>
Key_poweroftwo == <<"p", "o", "w", "e", "r", "o", "f", "t", "w", "o">>
Key_cache_aware == <<"c", "a", "c", "h", "e", "_", "a", "w", "a", "r", "e">>
Key_cacheaware == <<"c", "a", "c", "h", "e", "a", "w", "a", "r", "e">>
Key_token_cache_aware == <<"t", "o", "k", "e", "n", "_", "c", "a", "c", "h", "e", "_", "a", "w", "a", "r", "e">>
Key_tokencacheaware == <<"t", "o", "k", "e", "n", "c", "a", "c", "h", "e", "a", "w", "a", "r", "e">>

\* None, the result of a lookup that constructs nothing.
Nothing == [outcome |-> "nothing", instance |-> <<>>]

\* The arms shared by both name entry points (lines 116-119 and 135-138):
\* each policy is built by its new(), with its default configuration.
CreateByKey(key) ==
    IF key = Key_random THEN Built(Instance(OtherPolicyName("Random"), <<>>))
    ELSE IF key \in {Key_round_robin, Key_roundrobin}
    THEN Built(Instance(OtherPolicyName("RoundRobin"), <<>>))
    ELSE IF key \in {Key_power_of_two, Key_poweroftwo}
    THEN Built(Instance(OtherPolicyName("PowerOfTwo"), <<>>))
    ELSE IF key \in {Key_cache_aware, Key_cacheaware}
    THEN Built(Instance(OtherPolicyName("CacheAware"), <<>>))
    ELSE Nothing

\* PolicyFactory::create_by_name.
create_by_name(name) ==
    LET key == to_lowercase(name)
    IN IF key \in {Key_token_cache_aware, Key_tokencacheaware}
       THEN Nothing
       ELSE CreateByKey(key)

\* PolicyFactory::create_by_name_with_tokenizer; TokenCacheAwarePolicy::new
\* takes CacheAwareConfig::default().
create_by_name_with_tokenizer(name) ==
    LET key == to_lowercase(name)
    IN IF key \in {Key_token_cache_aware, Key_tokencacheaware}
       THEN Built(Instance(TokenCacheAwareName, <<>>))
       ELSE CreateByKey(key)

\* Names handed to the name entry points.  The keys of the lookup in four
\* spellings: small letters, capitals, first letter capital, every second
\* letter capital.
ToUpperAscii(c) == IF IndexIn(LowerAscii, c) # 0 THEN UpperAscii[IndexIn(LowerAscii, c)] ELSE c

CaseVariants(key) ==
    { key,
      [i \in 1..Len(key) |-> ToUpperAscii(key[i])],
      [i \in 1..Len(key) |-> IF i = 1 THEN ToUpperAscii(key[i]) ELSE key[i]],
      [i \in 1..Len(key) |-> IF i % 2 = 0 THEN ToUpperAscii(key[i]) ELSE key[i]] }

\* Names of the policies that need no tokenizer, in any of the spellings.
PlainNames ==
    UNION { CaseVariants(k) : k \in {Key_random, Key_round_robin, Key_roundrobin,
                                     Key_power_of_two, Key_poweroftwo,
                                     Key_cache_aware, Key_cacheaware} }

\* Names of TokenCacheAware, in any of the spellings.
TokenNames == UNION { CaseVariants(k) : k \in {Key_token_cache_aware, Key_tokencacheaware} }

\* Names that are no key in any letter case: the empty name, other words, a
\* key with a trailing blank, a key with a separator changed, and a key
\* spelled with capital I with dot above.
UnknownNames ==
    { <<>>,
      <<"l", "r", "u">>,
      <<"r", "a", "n", "d", "o", "m", " ">>,
      <<"R", "o", "u", "n", "d", "-", "R", "o", "b", "i", "n">>,
      <<"c", "a", "c", "h", "e">>,
      << "R", "O", "U", "N", "D", "_", "R", "O", "B", "U+0130", "N" >> }

\* A name that is no ASCII spelling of a key but lower-cases to one: the
\* Kelvin sign in place of the letter k.
LookalikeNames ==
    { << "t", "o", "U+212A", "e", "n", "_", "c", "a", "c", "h", "e", "_",
         "a", "w", "a", "r", "e" >> }

Names == PlainNames \cup TokenNames \cup UnknownNames \cup LookalikeNames

---------------------------------------------------------------------------
(* Token cache-aware policy (token_cache_aware.rs).                         *)

\* workers[idx]
At(ws, idx) == ws[idx + 1]

\* get_healthy_worker_indices: the indices of the healthy workers, ascending.
get_healthy_worker_indices(ws) ==
    SelectSeq([i \in 1..Len(ws) |-> i - 1], LAMBDA idx : At(ws, idx).healthy)

\* loads.iter().max().unwrap_or(&0)
max_load(ws) ==
    IF ws = <<>> THEN 0
    ELSE CHOOSE x \in { ws[i].load : i \in 1..Len(ws) } :
             \A i \in 1..Len(ws) : ws[i].load <= x

\* loads.iter().min().unwrap_or(&0)
min_load(ws) ==
    IF ws = <<>> THEN 0
    ELSE CHOOSE x \in { ws[i].load : i \in 1..Len(ws) } :
             \A i \in 1..Len(ws) : ws[i].load >= x

\* usize::saturating_sub
saturating_sub(a, b) == IF a > b THEN a - b ELSE 0

\* The imbalance check of lines 160-161.
is_imbalanced(config, ws) ==
    /\ saturating_sub(max_load(ws), min_load(ws)) > config.balance_abs_threshold
    /\ F32Gt(UsizeAsF32(max_load(ws)),
             F32Mul(UsizeAsF32(min_load(ws)), config.balance_rel_threshold))

\* A fold that replaces the element it holds when the next one is as small.
RECURSIVE MinFoldLast(_, _, _, _)
MinFoldLast(idxs, ws, k, best) ==
    IF k > Len(idxs) THEN best
    ELSE MinFoldLast(idxs, ws, k + 1,
                     IF At(ws, idxs[k]).load <= At(ws, best).load THEN idxs[k] ELSE best)

\* Iterator::min_by_key over indices with key workers[idx].load(): the fold
\* keeps the element it holds unless the next one is strictly smaller.
RECURSIVE MinFold(_, _, _, _)
MinFold(idxs, ws, k, best) ==
    IF k > Len(idxs) THEN best
    ELSE MinFold(idxs, ws, k + 1,
                 IF At(ws, idxs[k]).load < At(ws, best).load THEN idxs[k] ELSE best)

min_by_key_load(idxs, ws) ==
    IF idxs = <<>> THEN <<>> ELSE << MinFold(idxs, ws, 2, idxs[1]) >>

\* workers.iter().position(|w| w.url() == worker_id)
position(ws, worker_id) ==
    IF \E i \in 1..Len(ws) : ws[i].url = worker_id
    THEN << (CHOOSE i \in 1..Len(ws) :
                /\ ws[i].url = worker_id
                /\ \A j \in 1..(i - 1) : ws[j].url # worker_id) - 1 >>
    ELSE <<>>

\* rng.random_range(0..healthy_indices.len()): the values it can draw.
random_range(healthy) == 0..(Len(healthy) - 1)

\* random_pick with a generator that always draws 0.
random_pick_first(healthy, rnd) == healthy[1]

\* healthy_indices[random_idx]
random_pick(healthy, rnd) == healthy[rnd + 1]

\* call_nexuts_api taking the last worker id of the answer.
call_nexuts_api_last(reply) ==
    IF reply.kind # "ok" THEN [ok |-> FALSE, id |-> ""]
    ELSE IF reply.worker_ids = <<>> THEN [ok |-> FALSE, id |-> ""]
    ELSE [ok |-> TRUE, id |-> reply.worker_ids[Len(reply.worker_ids)]]

\* call_nexuts_api, from the outcome of the HTTP exchange: Err for a failed
\* send (transport failure, timeout), a non-success status, an undecodable
\* body or an empty worker_ids; otherwise Ok(worker_ids[0]).
call_nexuts_api(reply) ==
    IF reply.kind # "ok" THEN [ok |-> FALSE, id |-> ""]
    ELSE IF reply.worker_ids = <<>> THEN [ok |-> FALSE, id |-> ""]
    ELSE [ok |-> TRUE, id |-> reply.worker_ids[1]]

\* tokenize_request, from the outcome of Tokenizer::encode.
tokenize_request(enc) ==
    IF enc.ok THEN [ok |-> TRUE, ids |-> enc.ids] ELSE [ok |-> FALSE, ids |-> <<>>]

\* RouterMetrics calls.
Metric(event, worker) == [event |-> event, worker |-> worker]

\* The metrics and the counter recorded for a worker chosen by the policy.
DispatchMetrics(url) ==
    { Metric("record_processed_request", url), Metric("record_policy_decision", url) }

\* What one stretch of select_worker leaves behind: whether it returned,
\* panicked or is waiting for the resolver; the Option<usize> it returned;
\* the snapshot of healthy indices; the tokens handed to the resolver; the
\* execution context it met; the collaborator calls it made; the worker whose
\* processed counter it incremented; the metrics it recorded.
Frame(stage, ret, healthy, tokvec, ctx, tcalls, rcalls, inc, events) ==
    [stage |-> stage, ret |-> ret, healthy |-> healthy, tokvec |-> tokvec, ctx |-> ctx,
     tokenizer_calls |-> tcalls, resolver_calls |-> rcalls, inc |-> inc, events |-> events]

\* Lines 195-197, 205-207, 218-220 and 239-241: Some(healthy_indices[random_idx]).
random_fallback(healthy, rnd) == << random_pick(healthy, rnd) >>

\* shortest_queue without the increment_processed() of line 178.
shortest_queue_uncounted(ws, healthy) ==
    LET found == min_by_key_load(healthy, ws)
    IN [ret |-> found, inc |-> <<>>,
        events |-> { Metric("record_load_balancing_event", ""),
                     Metric("set_load_range", "") }]

\* Lines 173-182: the imbalance branch.
shortest_queue(ws, healthy) ==
    LET found == min_by_key_load(healthy, ws)
    IN IF found = <<>>
       THEN [ret |-> <<>>, inc |-> <<>>,
             events |-> { Metric("record_load_balancing_event", ""),
                          Metric("set_load_range", "") }]
       ELSE [ret |-> found, inc |-> found,
             events |-> { Metric("record_load_balancing_event", ""),
                          Metric("set_load_range", "") }
                        \cup DispatchMetrics(At(ws, found[1]).url)]

\* Lines 213-214: Handle::current() panics on a thread with no runtime,
\* Handle::block_on panics on a thread that is driving asynchronous tasks;
\* on a thread that may block, the request is sent and the thread waits.
enter_resolver(healthy, ids, tcalls, ctx) ==
    IF ctx = "blocking"
    THEN Frame("awaiting", <<>>, healthy, <<ids>>, ctx, tcalls, 1, <<>>, {})
    ELSE Frame("panicked", <<>>, healthy, <<ids>>, ctx, tcalls, 0, <<>>, {})

\* Lines 150-214 of select_worker, from the snapshot of healthy indices
\* taken at line 148 up to the wait for the resolver.  enc is what
\* Tokenizer::encode answers if asked, ctx the execution context, rnd the
\* number the generator draws if asked.
select_worker_after_snapshot(healthy, config, ws, text, tok, enc, ctx, rnd) ==
    IF healthy = <<>>
    THEN Frame("returned", <<>>, healthy, <<>>, "unused", 0, 0, <<>>, {})
    ELSE IF is_imbalanced(config, ws)
    THEN LET sq == shortest_queue(ws, healthy)
         IN Frame("returned", sq.ret, healthy, <<>>, "unused", 0, 0, sq.inc, sq.events)
    ELSE IF tok # <<>>
    THEN enter_resolver(healthy, tok[1], 0, ctx)
    ELSE LET t == IF text = <<>> THEN "" ELSE text[1]
         IN IF t = ""
            THEN Frame("returned", random_fallback(healthy, rnd), healthy, <<>>,
                       "unused", 0, 0, <<>>, {})
            ELSE LET tk == tokenize_request(enc)
                 IN IF tk.ok
                    THEN enter_resolver(healthy, tk.ids, 1, ctx)
                    ELSE Frame("returned", random_fallback(healthy, rnd), healthy,
                               <<>>, "unused", 1, 0, <<>>, {})

\* Lines 148-214 of select_worker, up to the wait for the resolver, when the
\* workers do not change meanwhile.
select_worker_head(config, ws, text, tok, enc, ctx, rnd) ==
    select_worker_after_snapshot(get_healthy_worker_indices(ws), config, ws,
                                 text, tok, enc, ctx, rnd)

\* revalidated without the health check of line 228.
revalidated_unchecked(ws, found) == found # <<>>

\* Lines 226-228: the worker named by the resolver is in the slice and healthy.
revalidated(ws, found) == found # <<>> /\ At(ws, found[1]).healthy

\* Lines 214-242 of select_worker, from the resolver's answer on.
select_worker_tail(ws, healthy, reply, rnd) ==
    LET api == call_nexuts_api(reply)
        found == position(ws, api.id)
    IN IF ~api.ok
       THEN [ret |-> random_fallback(healthy, rnd), inc |-> <<>>, events |-> {}]
       ELSE IF revalidated(ws, found)
       THEN [ret |-> found, inc |-> found,
             events |-> { Metric("record_processed_request", api.id),
                          Metric("record_policy_decision", api.id),
                          Metric("record_cache_hit", "") }]
       ELSE [ret |-> random_fallback(healthy, rnd), inc |-> <<>>, events |-> {}]

\* select_decode taking the minimum load over all decode workers.
select_decode_all(dws, prefill) ==
    LET all == [i \in 1..Len(dws) |-> i - 1]
        decode == min_by_key_load(all, dws)
    IN IF prefill = <<>> THEN <<>>
       ELSE IF get_healthy_worker_indices(dws) = <<>> THEN <<>>
       ELSE IF decode = <<>> THEN <<>>
       ELSE << <<prefill[1], decode[1]>> >>

\* Lines 276-287 of select_worker_pair, after the prefill index is known.
select_decode(dws, prefill) ==
    LET healthy_decode == get_healthy_worker_indices(dws)
        decode == min_by_key_load(healthy_decode, dws)
    IN IF prefill = <<>> THEN <<>>
       ELSE IF healthy_decode = <<>> THEN <<>>
       ELSE IF decode = <<>> THEN <<>>
       ELSE << <<prefill[1], decode[1]>> >>

---------------------------------------------------------------------------
(* State machine.                                                           *)

\* The frame of a second caller that is not in a call.
OtherIdle ==
    [pc |-> "idle", workers |-> <<>>, healthy_indices |-> <<>>, resolver_calls |-> 0,
     result |-> [status |-> "none", value |-> <<>>]]

NoSelector == [variant |-> "none", config |-> <<>>]

NoFactoryCall ==
    [entry |-> "none", selector |-> NoSelector, name |-> <<>>,
     tokenizer |-> FALSE, outcome |-> "none"]

\* No selection call has been made on the current policy.
CallIdle ==
    /\ pc = "idle"
    /\ mode = "none"
    /\ workers = <<>>
    /\ decode_workers = <<>>
    /\ request_text = <<>>
    /\ token_ids = <<>>
    /\ healthy_indices = <<>>
    /\ token_ids_vec = <<>>
    /\ runtime_ctx = "unused"
    /\ tokenizer_calls = 0
    /\ resolver_calls = 0
    /\ resolver_response = <<>>
    /\ processed = <<>>
    /\ metrics = {}
    /\ result = [status |-> "none", value |-> <<>>]
    /\ other = OtherIdle
    /\ completed = "none"

Init ==
    /\ policy = <<>>
    /\ factory_call = NoFactoryCall
    /\ CallIdle

\* The record of the last selection call is dropped.
ForgetCall ==
    /\ pc' = "idle"
    /\ mode' = "none"
    /\ workers' = <<>>
    /\ decode_workers' = <<>>
    /\ request_text' = <<>>
    /\ token_ids' = <<>>
    /\ healthy_indices' = <<>>
    /\ token_ids_vec' = <<>>
    /\ runtime_ctx' = "unused"
    /\ tokenizer_calls' = 0
    /\ resolver_calls' = 0
    /\ resolver_response' = <<>>
    /\ processed' = <<>>
    /\ metrics' = {}
    /\ result' = [status |-> "none", value |-> <<>>]

\* A factory call returns: the caller holds the new instance, or nothing
\* after a panic; no selection call has been made on it.
FactoryReturns(entry, sel, tokenizer, built) ==
    /\ factory_call' = [entry |-> entry, selector |-> sel, name |-> <<>>,
                        tokenizer |-> tokenizer, outcome |-> built.outcome]
    /\ policy' = built.instance
    /\ UNCHANGED << other, completed, pc, mode, workers, decode_workers, request_text, token_ids,
                    healthy_indices, token_ids_vec, runtime_ctx, tokenizer_calls,
                    resolver_calls, resolver_response, processed, metrics, result >>

CreateFromConfig ==
    /\ pc = "idle"
    /\ \E sel \in Selectors :
         FactoryReturns("create_from_config", sel, FALSE, create_from_config(sel))

CreateFromConfigWithTokenizer ==
    /\ pc = "idle"
    /\ \E sel \in Selectors, tokenizer \in BOOLEAN :
         FactoryReturns("create_from_config_with_tokenizer", sel, tokenizer,
                        create_from_config_with_tokenizer(sel, tokenizer))

\* A name lookup returns: the caller holds the new instance, or nothing.
LookupReturns(entry, name, tokenizer, built) ==
    /\ factory_call' = [entry |-> entry, selector |-> NoSelector, name |-> name,
                        tokenizer |-> tokenizer, outcome |-> built.outcome]
    /\ policy' = built.instance
    /\ UNCHANGED << other, completed, pc, mode, workers, decode_workers, request_text, token_ids,
                    healthy_indices, token_ids_vec, runtime_ctx, tokenizer_calls,
                    resolver_calls, resolver_response, processed, metrics, result >>

CreateByName ==
    /\ pc = "idle"
    /\ \E name \in Names :
         LookupReturns("create_by_name", name, FALSE, create_by_name(name))

CreateByNameWithTokenizer ==
    /\ pc = "idle"
    /\ \E name \in Names :
         LookupReturns("create_by_name_with_tokenizer", name, TRUE,
                       create_by_name_with_tokenizer(name))

\* A selection call can be made on a TokenCacheAwarePolicy when no other is
\* in progress.  Calls are made on instances built from a configuration:
\* the thresholds of CacheAwareConfig::default() are not in these sources.
CanSelect ==
    /\ pc = "idle"
    /\ policy # <<>>
    /\ policy[1].name = TokenCacheAwareName
    /\ policy[1].config # <<>>

\* The numbers the generator can draw for a snapshot (none is drawn when the
\* snapshot is empty).
Draws(healthy) == IF healthy = <<>> THEN {0} ELSE random_range(healthy)

\* The value a call returns in each mode, from select_worker's Option<usize>.
Returned(m, dws, ret) == IF m = "select_worker_pair" THEN select_decode(dws, ret) ELSE ret

\* The state after the first stretch of a call in mode m.
Begin(m, ws, dws, text, tok, head) ==
    /\ mode' = m
    /\ workers' = ws
    /\ decode_workers' = dws
    /\ request_text' = text
    /\ token_ids' = tok
    /\ healthy_indices' = head.healthy
    /\ token_ids_vec' = head.tokvec
    /\ runtime_ctx' = head.ctx
    /\ tokenizer_calls' = head.tokenizer_calls
    /\ resolver_calls' = head.resolver_calls
    /\ resolver_response' = <<>>
    /\ processed' = [i \in 1..Len(ws) |-> IF head.inc = <<i - 1>> THEN 1 ELSE 0]
    /\ metrics' = head.events
    /\ pc' = IF head.stage = "awaiting" THEN "resolver" ELSE "done"
    /\ result' = [status |-> head.stage,
                  value |-> IF head.stage = "returned" THEN Returned(m, dws, head.ret)
                            ELSE <<>>]
    /\ UNCHANGED << other, completed, policy, factory_call >>

\* select_worker(workers, request_text, token_ids), to its return or to the
\* wait for the resolver.
SelectWorker ==
    /\ CanSelect
    /\ \E ws \in Slices(MaxWorkers, LoadValues), text \in RequestTexts,
          tok \in TokenIdInputs, enc \in EncodeResults, ctx \in RuntimeContexts :
         \E rnd \in Draws(get_healthy_worker_indices(ws)) :
            Begin("select_worker", ws, <<>>, text, tok,
                  select_worker_head(policy[1].config[1], ws, text, tok, enc, ctx, rnd))

\* select_worker_pair(prefill_workers, decode_workers, request_text,
\* token_ids), to its return or to the wait for the resolver.
SelectWorkerPair ==
    /\ CanSelect
    /\ \E ws \in Slices(MaxWorkers, PairLoadValues), text \in RequestTexts,
          tok \in TokenIdInputs, enc \in EncodeResults, ctx \in RuntimeContexts :
         \E rnd \in Draws(get_healthy_worker_indices(ws)) :
            LET head == select_worker_head(policy[1].config[1], ws, text, tok,
                                           enc, ctx, rnd)
            IN \E dws \in Slices(MaxDecode, PairLoadValues) :
                  Begin("select_worker_pair", ws, dws, text, tok, head)

\* The HTTP exchange with the resolver ends (an answer, a failure or the
\* client timeout) and the waiting call runs to its return.
ResolverReply ==
    /\ pc = "resolver"
    /\ \E reply \in ResolverReplies(Len(workers)), rnd \in Draws(healthy_indices) :
         LET tail == select_worker_tail(workers, healthy_indices, reply, rnd)
         IN /\ resolver_response' = <<reply>>
            /\ processed' = [i \in 1..Len(workers) |->
                               IF tail.inc = <<i - 1>> THEN processed[i] + 1
                               ELSE processed[i]]
            /\ metrics' = metrics \cup tail.events
            /\ result' = [status |-> "returned",
                          value |-> Returned(mode, decode_workers, tail.ret)]
            /\ pc' = "done"
    /\ UNCHANGED << other, completed, policy, factory_call, mode, workers, decode_workers, request_text,
                    token_ids, healthy_indices, token_ids_vec, runtime_ctx,
                    tokenizer_calls, resolver_calls >>

\* The caller has taken the result of the call (or the panic has unwound).
CallOver ==
    /\ pc = "done"
    /\ ForgetCall
    /\ completed' = "none"
    /\ UNCHANGED << policy, factory_call, other >>

Next ==
    \/ CreateFromConfig
    \/ CreateFromConfigWithTokenizer
    \/ CreateByName
    \/ CreateByNameWithTokenizer
    \/ SelectWorker
    \/ ResolverReply
    \/ CallOver

\* The factory entry points and select_worker.
Spec == Init /\ [][Next]_vars

\* A TokenCacheAwarePolicy built by create_from_config_with_tokenizer.
InitPair ==
    /\ \E c \in PairConfigs :
         LET sel == [variant |-> "TokenCacheAware", config |-> <<c>>]
         IN /\ policy = create_from_config_with_tokenizer(sel, TRUE).instance
            /\ factory_call = [entry |-> "create_from_config_with_tokenizer",
                               selector |-> sel, name |-> <<>>, tokenizer |-> TRUE,
                               outcome |-> "instance"]
    /\ CallIdle

NextPair ==
    \/ SelectWorkerPair
    \/ ResolverReply
    \/ CallOver

\* select_worker_pair on a constructed policy.
SpecPair == InitPair /\ [][NextPair]_vars

\* select_worker reads the workers one step at a time while their owner, the
\* worker pool, changes them.

\* Line 148: the call starts and takes its snapshot of healthy indices.
TakeSnapshot ==
    /\ CanSelect
    /\ \E ws \in Slices(MaxWorkers, PairLoadValues), text \in RequestTexts,
          tok \in TokenIdInputs :
         /\ pc' = "snapshot"
         /\ mode' = "select_worker"
         /\ workers' = ws
         /\ request_text' = text
         /\ token_ids' = tok
         /\ healthy_indices' = get_healthy_worker_indices(ws)
         /\ processed' = [i \in 1..Len(ws) |-> 0]
    /\ UNCHANGED << other, completed, policy, factory_call, decode_workers, token_ids_vec, runtime_ctx,
                    tokenizer_calls, resolver_calls, resolver_response, metrics, result >>

\* The worker pool changes the health flag or the load of one worker while
\* the call is between two of its reads.
WorkerChanges ==
    /\ pc \in {"snapshot", "resolver"}
    /\ \E i \in 1..Len(workers) :
         \/ workers' = [workers EXCEPT ![i].healthy = ~@]
         \/ \E l \in PairLoadValues \ {workers[i].load} :
               workers' = [workers EXCEPT ![i].load = l]
    /\ UNCHANGED << other, completed, policy, factory_call, pc, mode, decode_workers, request_text,
                    token_ids, healthy_indices, token_ids_vec, runtime_ctx,
                    tokenizer_calls, resolver_calls, resolver_response, processed,
                    metrics, result >>

\* Lines 150-214 on the workers as they are now, with the snapshot taken before.
DecideAfterSnapshot ==
    /\ pc = "snapshot"
    /\ \E enc \in EncodeResults, ctx \in RuntimeContexts, rnd \in Draws(healthy_indices) :
         Begin("select_worker", workers, <<>>, request_text, token_ids,
               select_worker_after_snapshot(healthy_indices, policy[1].config[1], workers,
                                            request_text, token_ids, enc, ctx, rnd))

NextRace ==
    \/ TakeSnapshot
    \/ WorkerChanges
    \/ DecideAfterSnapshot
    \/ ResolverReply
    \/ CallOver

\* select_worker on a constructed policy while the workers change.
SpecRace == InitPair /\ [][NextRace]_vars

\* Two threads call select_worker on the same policy instance.

\* select_worker with a lock held across the whole decision: a caller enters
\* only while no other call is waiting.
enter_exclusive(waiting) == ~waiting

\* select_worker borrows the policy as &self and the policy holds no lock: a
\* caller enters whether or not another call is waiting on the resolver.
enter_shared(waiting) == TRUE

\* The second caller's select_worker, to its return, its panic or its wait
\* for the resolver.  Its request carries token ids or nothing, so the
\* tokenizer is not asked.
OtherSelectWorker ==
    /\ policy # <<>>
    /\ policy[1].name = TokenCacheAwareName
    /\ policy[1].config # <<>>
    /\ other.pc = "idle"
    /\ enter_shared(pc = "resolver")
    /\ \E ws \in Slices(MaxOtherWorkers, PairLoadValues), tok \in TokenIdInputs,
          ctx \in RuntimeContexts :
         \E rnd \in Draws(get_healthy_worker_indices(ws)) :
            LET head == select_worker_head(policy[1].config[1], ws, <<>>, tok,
                                           [ok |-> FALSE, ids |-> <<>>], ctx, rnd)
            IN other' = [pc |-> IF head.stage = "awaiting" THEN "resolver" ELSE "done",
                         workers |-> ws,
                         healthy_indices |-> head.healthy,
                         resolver_calls |-> head.resolver_calls,
                         result |-> [status |-> head.stage,
                                     value |-> IF head.stage = "returned"
                                               THEN head.ret ELSE <<>>]]
    /\ UNCHANGED << policy, factory_call, pc, mode, workers, decode_workers,
                    request_text, token_ids, healthy_indices, token_ids_vec,
                    runtime_ctx, tokenizer_calls, resolver_calls, resolver_response,
                    processed, metrics, result, completed >>

\* The second caller's own exchange with the resolver ends and its call
\* runs to its return.
OtherResolverReply ==
    /\ other.pc = "resolver"
    /\ \E reply \in ResolverReplies(Len(other.workers)),
          rnd \in Draws(other.healthy_indices) :
         LET tail == select_worker_tail(other.workers, other.healthy_indices, reply, rnd)
         IN other' = [other EXCEPT !.pc = "done",
                                   !.result = [status |-> "returned", value |-> tail.ret]]
    /\ UNCHANGED << policy, factory_call, pc, mode, workers, decode_workers,
                    request_text, token_ids, healthy_indices, token_ids_vec,
                    runtime_ctx, tokenizer_calls, resolver_calls, resolver_response,
                    processed, metrics, result, completed >>

\* The second caller has taken the result of its call.
OtherCallOver ==
    /\ other.pc = "done"
    /\ other' = OtherIdle
    /\ UNCHANGED << policy, factory_call, pc, mode, workers, decode_workers,
                    request_text, token_ids, healthy_indices, token_ids_vec,
                    runtime_ctx, tokenizer_calls, resolver_calls, resolver_response,
                    processed, metrics, result, completed >>

NextTwoCalls ==
    \/ TakeSnapshot
    \/ DecideAfterSnapshot
    \/ ResolverReply
    \/ CallOver
    \/ OtherSelectWorker
    \/ OtherResolverReply
    \/ OtherCallOver

\* Two concurrent select_worker calls on a constructed policy.
SpecTwoCalls == InitPair /\ [][NextTwoCalls]_vars

\* on_request_complete adapting the policy to failures: a failed request
\* raises the absolute threshold.
on_request_complete_adaptive(pol, worker_url, success) ==
    IF success THEN pol
    ELSE << [pol[1] EXCEPT !.config =
                << [@[1] EXCEPT !.balance_abs_threshold = @ + 1] >>] >>

\* on_request_complete(worker_url, success): a debug line when the request
\* failed; the policy it is called on is left as it was.
on_request_complete(pol, worker_url, success) == pol

\* The router reports the outcome of the request that the call in progress
\* or just ended was made for.
OnRequestComplete ==
    /\ pc \in {"resolver", "done"}
    /\ completed = "none"
    /\ \E worker_url \in ResolverUrls(Len(workers)), success \in BOOLEAN :
         /\ policy' = on_request_complete(policy, worker_url, success)
         /\ completed' = IF success THEN "success" ELSE "failure"
    /\ UNCHANGED << factory_call, pc, mode, workers, decode_workers, request_text,
                    token_ids, healthy_indices, token_ids_vec, runtime_ctx,
                    tokenizer_calls, resolver_calls, resolver_response, processed,
                    metrics, result, other >>

NextLifecycle ==
    \/ SelectWorker
    \/ SelectWorkerPair
    \/ ResolverReply
    \/ OnRequestComplete
    \/ CallOver

\* select_worker, select_worker_pair and on_request_complete on a
\* constructed policy.
SpecLifecycle == InitPair /\ [][NextLifecycle]_vars

\* select_worker_pair on prefill slices of up to MaxTiedWorkers workers, for
\* requests that carry token ids or nothing.
SelectWorkerPairOfMany ==
    /\ CanSelect
    /\ \E ws \in Slices(MaxTiedWorkers, PairLoadValues), tok \in TokenIdInputs,
          ctx \in RuntimeContexts :
         \E rnd \in Draws(get_healthy_worker_indices(ws)) :
            LET head == select_worker_head(policy[1].config[1], ws, <<>>, tok,
                                           [ok |-> FALSE, ids |-> <<>>], ctx, rnd)
            IN \E dws \in Slices(MaxDecode, PairLoadValues) :
                  Begin("select_worker_pair", ws, dws, <<>>, tok, head)

NextTies ==
    \/ SelectWorkerPairOfMany
    \/ ResolverReply
    \/ CallOver

\* select_worker_pair on a constructed policy, with room for ties.
SpecTies == InitPair /\ [][NextTies]_vars

NextLive ==
    \/ SelectWorker
    \/ ResolverReply
    \/ CallOver

\* select_worker on a constructed policy, with the HTTP exchange bound to
\* end: the client is built with a timeout of 5 seconds (line 65), so a
\* pending exchange ends with an answer, a failure or the expiry.
SpecLive == InitPair /\ [][NextLive]_vars /\ WF_vars(ResolverReply)

---------------------------------------------------------------------------
(* Vocabulary of the properties, stated on the state alone.                 *)

\* The indices of the healthy workers of a slice.
HealthySet(ws) == { i \in 0..(Len(ws) - 1) : ws[i + 1].healthy }

\* The loads of all workers of a slice, healthy or not.
LoadSet(ws) == { ws[i].load : i \in 1..Len(ws) }

\* The thresholds of the policy the call runs on.
Thresholds == policy[1].config[1]

\* max(L) - min(L) > abs and max(L) > min(L) * rel over the integers and the
\* rationals: rel is m * 2^e with e < 0, so the second comparison is
\* max * 2^(-e) > min * m, computed without rounding.
ExactImbalanced(abs, rel, ws) ==
    \E hi \in LoadSet(ws), lo \in LoadSet(ws) :
        /\ \A x \in LoadSet(ws) : lo <= x /\ x <= hi
        /\ hi - lo > abs
        /\ WideGt(WideMul(hi, 2^(0 - rel.e)), WideMul(lo, rel.m))

\* A select_worker call has ended, by a return or by a panic.
SelectWorkerEnded == pc = "done" /\ mode = "select_worker"

\* A select_worker_pair call has ended, by a return or by a panic.
SelectWorkerPairEnded == pc = "done" /\ mode = "select_worker_pair"

\* The call ended by returning Some.
ReturnedSome == result.status = "returned" /\ result.value # <<>>

\* The call recorded a load-balancing event: it went through imbalance mode.
ImbalanceMode == Metric("record_load_balancing_event", "") \in metrics

\* The call recorded a cache hit.
CacheHit == Metric("record_cache_hit", "") \in metrics

\* The resolver answered with a decoded response naming at least one worker.
ResolverNamed ==
    /\ resolver_response # <<>>
    /\ resolver_response[1].kind = "ok"
    /\ resolver_response[1].worker_ids # <<>>

\* The resolver call failed: transport failure, timeout, non-success status,
\* undecodable body or empty worker_ids.
ResolverFailed == resolver_response # <<>> /\ ~ResolverNamed

\* The first-ranked identity of the resolver's answer.
FirstRanked == resolver_response[1].worker_ids[1]

---------------------------------------------------------------------------
(* Properties.                                                              *)

\* C1: for every worker slice and request context, select_worker returns
\* nothing iff no worker is healthy and otherwise returns an in-bounds index
\* of a healthy worker; in particular it does not panic.
C1_ReturnsHealthyIndexOrNothing ==
    SelectWorkerEnded =>
        /\ result.status = "returned"
        /\ (result.value = <<>>) <=> (HealthySet(workers) = {})
        /\ result.value # <<>> => result.value[1] \in HealthySet(workers)

\* C2: whenever max(L) - min(L) > balance_abs_threshold and
\* max(L) > min(L) * balance_rel_threshold and some worker is healthy, a
\* select_worker call that returns, returns a healthy worker whose load is
\* the minimum among the healthy workers, whatever text or token ids it got.
C2_ImbalancedSelectsMinLoad ==
    ( /\ SelectWorkerEnded
      /\ result.status = "returned"
      /\ HealthySet(workers) # {}
      /\ ExactImbalanced(Thresholds.balance_abs_threshold,
                         Thresholds.balance_rel_threshold, workers) )
    => /\ result.value # <<>>
       /\ result.value[1] \in HealthySet(workers)
       /\ \A j \in HealthySet(workers) :
             workers[result.value[1] + 1].load <= workers[j + 1].load

\* C8: a select_worker call on a slice with a healthy worker goes through
\* imbalance mode iff both max_load - min_load > balance_abs_threshold and
\* max_load > min_load * balance_rel_threshold, max and min taken over all
\* workers of the slice.
C8_ImbalanceModeIffBothThresholds ==
    (SelectWorkerEnded /\ HealthySet(workers) # {}) =>
        ( ImbalanceMode <=>
          ExactImbalanced(Thresholds.balance_abs_threshold,
                          Thresholds.balance_rel_threshold, workers) )

\* The first-ranked identity is that of a healthy worker of the slice.
FirstRankedHealthy ==
    \E i \in HealthySet(workers) : workers[i + 1].url = FirstRanked

\* C3: when the resolver returns a non-empty worker_ids whose first entry is
\* the identity of a healthy worker of the slice (the resolver is asked only
\* when the load is balanced), select_worker returns that worker's index,
\* whatever the generator would draw, and records a cache hit.
C3_FirstRankedHealthyIsReturned ==
    (SelectWorkerEnded /\ ResolverNamed /\ FirstRankedHealthy) =>
        /\ ~ImbalanceMode
        /\ result.status = "returned"
        /\ \A i \in HealthySet(workers) :
              workers[i + 1].url = FirstRanked => result.value = <<i>>
        /\ CacheHit

\* C3's case: two healthy workers, the resolver ranks the second one first
\* and the first one second, and the second one is returned as a cache hit.
C3_Witness ==
    /\ SelectWorkerEnded
    /\ ResolverNamed
    /\ HealthySet(workers) = {0, 1}
    /\ resolver_response[1].worker_ids = << Url(1), Url(0) >>
    /\ result.value = <<1>>
    /\ CacheHit

\* The answers of the resolver whose first-ranked identity is not that of a
\* healthy worker of the slice ws.
MissAnswers(ws) ==
    { reply \in ResolverReplies(Len(ws)) :
        /\ reply.kind = "ok"
        /\ reply.worker_ids # <<>>
        /\ \A i \in HealthySet(ws) : ws[i + 1].url # reply.worker_ids[1] }

\* The resolver's answer `reply` can end the waiting call with index h.
CanEndWith(reply, h) ==
    ENABLED (ResolverReply /\ resolver_response' = <<reply>> /\ result'.value = <<h>>)

\* C4: when the resolver's first-ranked identity matches no worker of the
\* slice or an unhealthy one, select_worker returns the index of a healthy
\* worker, never the worker named, records no cache hit, and every healthy
\* index can be the one returned, also when a lower-ranked identity names a
\* healthy worker.
C4_FirstRankedMissingOrUnhealthyFallsBack ==
    /\ (SelectWorkerEnded /\ ResolverNamed /\ ~FirstRankedHealthy) =>
          /\ result.status = "returned"
          /\ result.value # <<>>
          /\ result.value[1] \in HealthySet(workers)
          /\ workers[result.value[1] + 1].url # FirstRanked
          /\ ~CacheHit
    /\ (pc = "resolver" /\ mode = "select_worker") =>
          \A reply \in MissAnswers(workers), h \in HealthySet(workers) :
              CanEndWith(reply, h)

\* C4's case: the first-ranked worker is in the slice and unhealthy, the
\* second-ranked one is healthy, and the call returned the healthy worker
\* by random fallback, with no cache hit.
C4_Witness ==
    /\ SelectWorkerEnded
    /\ ResolverNamed
    /\ Len(workers) = 2
    /\ ~workers[1].healthy
    /\ workers[2].healthy
    /\ resolver_response[1].worker_ids = << Url(0), Url(1) >>
    /\ result.value = <<1>>
    /\ ~CacheHit

\* The affinity path could not proceed: no token ids and no or empty text,
\* a tokenizer error, or a failed resolver call.
NoRequestContext == token_ids = <<>> /\ (request_text = <<>> \/ request_text = <<"">>)
TokenizerFailed == tokenizer_calls = 1 /\ token_ids_vec = <<>>
Degraded == NoRequestContext \/ TokenizerFailed \/ ResolverFailed

\* Some run of select_worker's first stretch on the inputs of this call makes
\* the same collaborator calls and returns index h.
HeadCanReturn(h) ==
    \E enc \in EncodeResults, ctx \in RuntimeContexts, rnd \in Draws(healthy_indices) :
        LET head == select_worker_head(Thresholds, workers, request_text, token_ids,
                                       enc, ctx, rnd)
        IN /\ head.stage = "returned"
           /\ head.tokenizer_calls = tokenizer_calls
           /\ head.ret = <<h>>

\* The replies that are failures of the resolver call.
FailureReplies(ws) ==
    { reply \in ResolverReplies(Len(ws)) : reply.kind # "ok" \/ reply.worker_ids = <<>> }

\* C5: when the call did not go through imbalance mode, some worker is
\* healthy and the affinity path cannot proceed (no token ids and no or empty
\* text; tokenizer error; resolver transport failure, timeout, non-success
\* status or empty worker_ids), select_worker returns the index of a healthy
\* worker, and every healthy index is a possible result.
C5_DegradedAffinityReturnsRandomHealthy ==
    /\ (SelectWorkerEnded /\ HealthySet(workers) # {} /\ ~ImbalanceMode /\ Degraded) =>
          /\ result.status = "returned"
          /\ result.value # <<>>
          /\ result.value[1] \in HealthySet(workers)
          /\ ~CacheHit
    /\ ( /\ SelectWorkerEnded
         /\ HealthySet(workers) # {}
         /\ ~ImbalanceMode
         /\ NoRequestContext \/ TokenizerFailed ) =>
          \A h \in HealthySet(workers) : HeadCanReturn(h)
    /\ (pc = "resolver" /\ mode = "select_worker") =>
          \A reply \in FailureReplies(workers), h \in HealthySet(workers) :
              CanEndWith(reply, h)

\* C5's case: the resolver call timed out with two healthy workers under
\* balanced load, and the call returned the second of them.
C5_Witness ==
    /\ SelectWorkerEnded
    /\ ~ImbalanceMode
    /\ HealthySet(workers) = {0, 1}
    /\ resolver_response # <<>>
    /\ resolver_response[1].kind = "timeout"
    /\ result.value = <<1>>

\* C6: select_worker_pair returns nothing iff the prefill slice or the
\* decode slice has no healthy worker; in every other case it returns a
\* (prefill index, decode index) pair.
C6_PairNothingIffASideHasNoHealthyWorker ==
    SelectWorkerPairEnded =>
        /\ result.status = "returned"
        /\ (result.value = <<>>) <=>
              (HealthySet(workers) = {} \/ HealthySet(decode_workers) = {})

\* C7: whenever select_worker_pair returns a pair, its decode index is that
\* of a healthy decode worker whose load is the minimum among the healthy
\* decode workers, whatever the text, the token ids, the resolver's answer
\* and the prefill worker chosen.
C7_DecodeIsMinLoadHealthy ==
    (SelectWorkerPairEnded /\ ReturnedSome) =>
        LET d == result.value[1][2]
        IN /\ d \in HealthySet(decode_workers)
           /\ \A j \in HealthySet(decode_workers) :
                 decode_workers[d + 1].load <= decode_workers[j + 1].load

\* C7's case: the prefill worker came from a cache hit, the decode worker
\* with the smallest load is unhealthy, and the healthy one was returned.
C7_Witness ==
    /\ SelectWorkerPairEnded
    /\ ReturnedSome
    /\ CacheHit
    /\ Len(decode_workers) = 2
    /\ ~decode_workers[1].healthy
    /\ decode_workers[2].healthy
    /\ decode_workers[1].load < decode_workers[2].load
    /\ result.value[1][2] = 1

\* The factory call returned an instance whose name() is n.
BuiltNamed(n) ==
    /\ factory_call.outcome = "instance"
    /\ policy # <<>>
    /\ policy[1].name = n

\* The factory call panicked and returned no instance.
FactoryPanicked == factory_call.outcome = "panic" /\ policy = <<>>

\* C9: create_from_config with the TokenCacheAware selector panics and
\* returns no instance; with Random, RoundRobin, PowerOfTwo or CacheAware it
\* returns an instance named random, round_robin, power_of_two or
\* cache_aware.
C9_CreateFromConfig ==
    factory_call.entry = "create_from_config" =>
        /\ factory_call.selector.variant = "TokenCacheAware" => FactoryPanicked
        /\ factory_call.selector.variant = "Random" => BuiltNamed("random")
        /\ factory_call.selector.variant = "RoundRobin" => BuiltNamed("round_robin")
        /\ factory_call.selector.variant = "PowerOfTwo" => BuiltNamed("power_of_two")
        /\ factory_call.selector.variant = "CacheAware" => BuiltNamed("cache_aware")

\* C9's case: create_from_config was called with the TokenCacheAware selector.
C9_Witness ==
    /\ factory_call.entry = "create_from_config"
    /\ factory_call.selector.variant = "TokenCacheAware"
    /\ FactoryPanicked

\* C10: create_from_config_with_tokenizer with the TokenCacheAware selector
\* returns an instance named token_cache_aware when a tokenizer is present
\* and panics when it is absent; for the other four selectors it returns an
\* instance with or without a tokenizer.
C10_CreateFromConfigWithTokenizer ==
    factory_call.entry = "create_from_config_with_tokenizer" =>
        IF factory_call.selector.variant = "TokenCacheAware"
        THEN IF factory_call.tokenizer
             THEN BuiltNamed("token_cache_aware")
             ELSE FactoryPanicked
        ELSE factory_call.outcome = "instance" /\ policy # <<>>

\* C10's case: the TokenCacheAware selector without a tokenizer.
C10_Witness ==
    /\ factory_call.entry = "create_from_config_with_tokenizer"
    /\ factory_call.selector.variant = "TokenCacheAware"
    /\ ~factory_call.tokenizer
    /\ FactoryPanicked

\* The name lookup returned an instance / returned nothing.
LookupBuilt == factory_call.outcome = "instance" /\ policy # <<>>
LookupNothing == factory_call.outcome = "nothing" /\ policy = <<>>

\* C11: name-based construction is case-insensitive and never panics:
\* create_by_name returns nothing for token_cache_aware / tokencacheaware in
\* any letter case and for every unknown name, and an instance for the keys
\* of the four other policies in any letter case;
\* create_by_name_with_tokenizer returns an instance for every one of those
\* keys, token_cache_aware / tokencacheaware included.
C11_NameLookupIsCaseInsensitive ==
    /\ factory_call.entry = "create_by_name" =>
          /\ factory_call.outcome # "panic"
          /\ factory_call.name \in PlainNames => LookupBuilt
          /\ factory_call.name \in TokenNames \cup UnknownNames => LookupNothing
    /\ factory_call.entry = "create_by_name_with_tokenizer" =>
          /\ factory_call.outcome # "panic"
          /\ factory_call.name \in PlainNames => LookupBuilt
          /\ factory_call.name \in TokenNames =>
                LookupBuilt /\ policy[1].name = TokenCacheAwareName

\* C11's case: create_by_name_with_tokenizer built a TokenCacheAwarePolicy
\* from a name that is not written in small letters.
C11_Witness ==
    /\ factory_call.entry = "create_by_name_with_tokenizer"
    /\ factory_call.name \in TokenNames
    /\ factory_call.name # to_lowercase(factory_call.name)
    /\ LookupBuilt
    /\ policy[1].name = TokenCacheAwareName

\* The call took the balanced branch: a healthy worker exists and no
\* load-balancing event was recorded.
BalancedBranch == healthy_indices # <<>> /\ ~ImbalanceMode

\* The text the call works on: request_text.unwrap_or("").
TextOrEmpty == IF request_text = <<>> THEN "" ELSE request_text[1]

\* The tokenizer was asked and answered with token ids.
TokenizerSucceeded == tokenizer_calls = 1 /\ token_ids_vec # <<>>

\* C12: within one select_worker call the resolver is called exactly once
\* when load is balanced and token ids were supplied or non-empty text was
\* tokenized, and not at all otherwise; the tokenizer is invoked only when
\* load is balanced, no token ids were supplied and the text is non-empty;
\* the resolver receives the caller's token ids unchanged when supplied,
\* otherwise the tokenizer's output.
C12_ResolverCalledOncePerAffinityDecision ==
    SelectWorkerEnded =>
        /\ resolver_calls =
              IF BalancedBranch /\ (token_ids # <<>> \/ TokenizerSucceeded) THEN 1 ELSE 0
        /\ tokenizer_calls > 0 =>
              BalancedBranch /\ token_ids = <<>> /\ TextOrEmpty # ""
        /\ resolver_calls = 1 =>
              IF token_ids # <<>>
              THEN token_ids_vec = token_ids
              ELSE \E enc \in EncodeResults : enc.ok /\ token_ids_vec = << enc.ids >>

\* The indices of the snapshot taken at line 148.
SnapshotSet == { healthy_indices[k] : k \in 1..Len(healthy_indices) }

\* C13: when health flags and loads change during a select_worker call,
\* every index the call returns is that of a worker whose health flag was
\* read as true during the call: it is in the eligibility snapshot, or it is
\* the worker the resolver named and the re-validation read it healthy.  A
\* worker that was unhealthy at both reads is never returned.
C13_ReturnedWorkerWasReadHealthy ==
    (SelectWorkerEnded /\ ReturnedSome) =>
        /\ result.value[1] \in 0..(Len(workers) - 1)
        /\ \/ result.value[1] \in SnapshotSet
           \/ /\ CacheHit
              /\ workers[result.value[1] + 1].healthy
              /\ workers[result.value[1] + 1].url = FirstRanked
        /\ ~CacheHit => result.value[1] \in SnapshotSet

\* C13's case: the worker the resolver named was unhealthy when the snapshot
\* was taken, became healthy while the call waited, and was returned.
C13_Witness ==
    /\ SelectWorkerEnded
    /\ ReturnedSome
    /\ CacheHit
    /\ result.value[1] \notin SnapshotSet
    /\ SnapshotSet # {}

\* The first caller is waiting for the resolver's answer.
WaitingOnResolver == pc = "resolver" /\ resolver_response = <<>>

C15_PolicyKeepsNoMutableState ==
    [][ /\ policy' = policy
        /\ policy[1].config[1].balance_abs_threshold =
              factory_call.selector.config[1].balance_abs_threshold
        /\ policy[1].config[1].balance_rel_threshold =
              factory_call.selector.config[1].balance_rel_threshold
        /\ completed' \in {"success", "failure"} /\ completed = "none" =>
              UNCHANGED << processed, workers, decode_workers, metrics, result,
                           healthy_indices, pc >> ]_vars

\* C15's case: a select_worker call returned a worker after a failed
\* request had been reported during its wait for the resolver.
C15_Witness ==
    /\ SelectWorkerEnded
    /\ ReturnedSome
    /\ resolver_calls = 1
    /\ completed = "failure"

\* The sum of the processed counters' increments over the workers of a slice.
RECURSIVE SumSeq(_)
SumSeq(q) == IF q = <<>> THEN 0 ELSE Head(q) + SumSeq(Tail(q))

\* C16: a select_worker call increments at most one worker's processed
\* counter, by exactly one, and only that of the worker it returns: it is
\* incremented when the call returns through the imbalance branch or the
\* cache-hit branch, and no counter changes when the call returns through
\* random fallback or returns nothing.
C16_ProcessedCounterFollowsTheBranch ==
    SelectWorkerEnded =>
        /\ SumSeq(processed) <= 1
        /\ \A i \in 1..Len(processed) :
              processed[i] = 1 => ReturnedSome /\ result.value[1] = i - 1
        /\ (ReturnedSome /\ (ImbalanceMode \/ CacheHit)) =>
              processed[result.value[1] + 1] = 1
        /\ (result.status = "returned" /\ ~ImbalanceMode /\ ~CacheHit) =>
              SumSeq(processed) = 0

\* C16's case: a call on two healthy workers returned the second through the
\* imbalance branch and incremented its counter alone.
C16_Witness ==
    /\ SelectWorkerEnded
    /\ ImbalanceMode
    /\ ReturnedSome
    /\ Len(workers) = 2
    /\ result.value[1] = 1
    /\ processed = <<0, 1>>

\* C17: whenever select_worker_pair returns nothing, every prefill and
\* decode worker's processed counter equals its value before the call.
C17_FailedPairLeavesCountersUnchanged ==
    (SelectWorkerPairEnded /\ result.status = "returned" /\ result.value = <<>>) =>
        SumSeq(processed) = 0

\* Index i is the first of the healthy workers of ws that have the smallest
\* load among the healthy workers.
FirstOfTheLeastLoaded(ws, i) ==
    /\ i \in HealthySet(ws)
    /\ \A j \in HealthySet(ws) :
          /\ ws[i + 1].load <= ws[j + 1].load
          /\ ws[j + 1].load = ws[i + 1].load => i <= j

\* C18: in imbalance mode, and in the decode half of select_worker_pair,
\* when several healthy workers share the minimum load the one with the
\* lowest index in the list is chosen.
C18_TiesGoToTheLowestIndex ==
    SelectWorkerPairEnded =>
        /\ ImbalanceMode =>
              \A i \in 1..Len(processed) :
                 processed[i] = 1 => FirstOfTheLeastLoaded(workers, i - 1)
        /\ (ImbalanceMode /\ ReturnedSome) =>
              FirstOfTheLeastLoaded(workers, result.value[1][1])
        /\ ReturnedSome => FirstOfTheLeastLoaded(decode_workers, result.value[1][2])

\* C18's case: imbalance mode with the second and third prefill workers
\* healthy and equally loaded below the first, and two healthy decode workers
\* of equal load; the pair names the second prefill and the first decode
\* worker.
C18_Witness ==
    /\ SelectWorkerPairEnded
    /\ ImbalanceMode
    /\ Len(workers) = 3
    /\ HealthySet(workers) = {0, 1, 2}
    /\ workers[1].load > workers[2].load
    /\ workers[2].load = workers[3].load
    /\ HealthySet(decode_workers) = {0, 1}
    /\ decode_workers[1].load = decode_workers[2].load
    /\ result.value = << <<1, 0>> >>

\* The resolver exchange ended by the client timeout.
ResolverTimedOut == resolver_response # <<>> /\ resolver_response[1].kind = "timeout"

\* C19: every select_worker invocation eventually returns: a call that
\* waits for the resolver goes on to its end, every call that ends has
\* returned, and a call whose resolver exchange timed out returns a healthy
\* worker by random fallback.
C19_EverySelectWorkerCallReturns ==
    /\ (pc = "resolver") ~> (pc = "done")
    /\ [](SelectWorkerEnded => result.status = "returned")
    /\ []((SelectWorkerEnded /\ ResolverTimedOut) =>
             /\ ReturnedSome
             /\ ~CacheHit
             /\ result.value[1] \in HealthySet(workers))

\* C20: every TokenCacheAware instance the factory constructs holds a
\* configuration with balance_abs_threshold >= 0 and balance_rel_threshold
\* >= 1.0, whatever configuration the factory was given, and no selection
\* step modifies that configuration.
C20_ThresholdsWithinTheirRange ==
    /\ []((policy # <<>> /\ policy[1].name = TokenCacheAwareName /\ policy[1].config # <<>>) =>
             /\ policy[1].config[1].balance_abs_threshold >= 0
             /\ ~F32Gt(F32One, policy[1].config[1].balance_rel_threshold))
    /\ [][(pc # "idle" \/ pc' # "idle") => policy' = policy]_vars

===========================================================================
